---- MODULE Spec2Model ----
(***************************************************************************)
(* P&L Analysis Assistant (src/app.py): one pass of the Streamlit script   *)
(* as a state machine.  The script loads two CSV uploads through a         *)
(* memoised loader, left-joins the fact rows to the chart of accounts,     *)
(* applies the sign column, filters to one month, aggregates, computes     *)
(* variances, ranks drivers, computes a totals row, and offers two         *)
(* buttons (commentary, Excel export).                                     *)
(*                                                                         *)
(* Floating-point cells are modelled exactly: a value is a rational        *)
(* n/d, NaN, or +/-infinity.  Rounding is not modelled.                    *)
(***************************************************************************)
EXTENDS Integers, Sequences, FiniteSets, TLC

VARIABLES
    pnl_file,    \* st.file_uploader result for the P&L fact CSV
    coa_file,    \* st.file_uploader result for the CoA CSV
    pc,          \* position of the script
    client,      \* Groq client or "None"
    cache,       \* st.cache_data store of load_csv: set of [key, value]
    pnl,         \* load_csv(pnl_file)
    coa,         \* load_csv(coa_file)
    df,          \* joined frame (sequence of rows)
    unmapped,    \* sequence of distinct unmapped account codes
    period,      \* selected month <<year, month>>
    view,        \* selected grouping
    piv,         \* aggregated frame with var_abs / var_pct
    drivers,     \* top drivers frame
    totals,      \* totals row
    commentary,  \* what the "Explain" button showed
    xls,         \* what the "Export" button produced
    sortKind,    \* tie behaviour of the build's default (quicksort) argsort
    env,         \* what the installation provides: modules, key, groq package
    pass,        \* number of completed script passes
    shown        \* results displayed by earlier passes: set of [inputs, outputs]

vars == <<pnl_file, coa_file, pc, client, cache, pnl, coa, df, unmapped, period,
          view, piv, drivers, totals, commentary, xls, sortKind, env, pass, shown>>

----------------------------------------------------------------------------
(* Bounds of the model *)

MaxFactRows == 2
MaxCoaRows == 2
MaxPasses == 2

(* Program constant: drivers = ... .head(10) *)
TopK == 10

----------------------------------------------------------------------------
(* Floating point values *)

Abs(x) == IF x < 0 THEN -x ELSE x

Sgn(x) == IF x < 0 THEN -1 ELSE IF x > 0 THEN 1 ELSE 0

RECURSIVE GCD(_, _)
GCD(a, b) == IF b = 0 THEN a ELSE GCD(b, a % b)

Num(n) == [k |-> "num", n |-> n, d |-> 1]

NaN == [k |-> "nan", n |-> 0, d |-> 1]

Inf(s) == [k |-> "inf", n |-> s, d |-> 1]

\* the rational n/d (d > 0) in lowest terms
Ratio(n, d) ==
    LET g == GCD(Abs(n), d)
    IN  [k |-> "num", n |-> n \div g, d |-> d \div g]

IsNaN(x) == x.k = "nan"

\* a * b on floats: NaN is absorbing (df['actual'] * df['sign'])
FMul(a, b) ==
    IF IsNaN(a) \/ IsNaN(b) THEN NaN
    ELSE Ratio(a.n * b.n, a.d * b.d)

\* a - b on finite floats
FSub(a, b) ==
    IF IsNaN(a) \/ IsNaN(b) THEN NaN
    ELSE Ratio(a.n * b.d - b.n * a.d, a.d * b.d)

\* Series.abs()
FAbs(a) == IF a.k = "num" THEN [a EXCEPT !.n = Abs(a.n)] ELSE a

\* a / b with b >= 0 (b is the result of .abs()): x/0 is +/-inf, 0/0 is NaN
FDiv(a, b) ==
    IF IsNaN(a) \/ IsNaN(b) THEN NaN
    ELSE IF b.n = 0 THEN (IF a.n = 0 THEN NaN ELSE Inf(Sgn(a.n)))
    ELSE Ratio(a.n * b.d * Sgn(b.n), a.d * Abs(b.n))

\* Series.replace([pd.NA, pd.NaT, inf, -inf], 0) on a float64 column: a float
\* block cannot hold pd.NA or pd.NaT, so those two entries are dropped from the
\* list and only +inf and -inf are replaced; a NaN cell is left as it is.
Replace(x) == IF x.k = "inf" THEN Num(0) ELSE x

RECURSIVE SumSkipNa(_)
\* Series.sum() / groupby sum: NaN cells are skipped, the empty sum is 0
SumSkipNa(s) ==
    IF s = <<>> THEN Num(0)
    ELSE IF IsNaN(Head(s)) THEN SumSkipNa(Tail(s))
    ELSE LET r == SumSkipNa(Tail(s))
         IN  Ratio(Head(s).n * r.d + r.n * Head(s).d, Head(s).d * r.d)

----------------------------------------------------------------------------
(* Uploaded files.  A file is its name and its content; the content is the *)
(* header (set of column names) and the data rows.  Cells of a column the  *)
(* header lacks are never read.                                            *)

NULL == "<NA>"

FactCols == {"account_code", "period", "business_unit", "cost_center",
             "actual", "budget", "prior_year"}

CoaCols == {"account_code", "category", "subcategory", "sign", "period"}

NoFile == [name |-> "", cols |-> {}, rows |-> <<>>]

Codes == {"4000", "5000"}

\* date cells as <<year, month, day>>
PeriodCells == {<<2024, 1, 5>>, <<2024, 2, 1>>}

\* cells pd.to_datetime rejects
BadPeriodCells == {<<2024, 13, 1>>, <<2024, 2, 30>>}

Units == {"North", NULL}

\* (actual, budget) cells
AmountCells == {<<0, 0>>, <<3, 0>>, <<3, 2>>, <<0, 1>>}

FactRow(code, per, bu, ab) ==
    [account_code |-> code, period |-> per, business_unit |-> bu,
     cost_center |-> "CC1", actual |-> ab[1], budget |-> ab[2], prior_year |-> 4]

FactRows ==
    {FactRow(c, p, u, ab) : c \in Codes, p \in PeriodCells, u \in Units,
                            ab \in AmountCells}

Categories == {"Revenue", NULL}

\* sign cells; a blank cell reads as NaN
SignCells == {Num(1), Num(-1), Num(2), NaN}

CoaRow(code, cat, sg) ==
    [account_code |-> code, category |-> cat, subcategory |-> "Product",
     sign |-> sg, period |-> <<2024, 1, 5>>]

CoaRows == {CoaRow(c, k, s) : c \in Codes, k \in Categories, s \in SignCells}

SeqsUpTo(S, n) == UNION {[1..m -> S] : m \in 1..n}

\* fact files with every column
FactFiles ==
    {[name |-> "pnl.csv", cols |-> FactCols, rows |-> r] :
        r \in SeqsUpTo(FactRows, MaxFactRows)}

\* CoA files with every column (a "period" column included)
CoaFiles ==
    {[name |-> "coa.csv", cols |-> CoaCols, rows |-> r] :
        r \in SeqsUpTo(CoaRows, MaxCoaRows)}

\* a plain fact file: two rows of one month
BaseFactRows ==
    <<FactRow("4000", <<2024, 1, 5>>, "North", <<3, 2>>),
      FactRow("5000", <<2024, 1, 20>>, NULL, <<3, 0>>)>>

BaseFact == [name |-> "pnl.csv", cols |-> FactCols, rows |-> BaseFactRows]

\* a plain CoA file: a revenue account and a cost account
BaseCoa ==
    [name |-> "coa.csv", cols |-> CoaCols,
     rows |-> <<CoaRow("4000", "Revenue", Num(1)), CoaRow("5000", "Cost", Num(-1))>>]

\* files lacking one column
FactFilesLacking == {[BaseFact EXCEPT !.cols = FactCols \ {c}] : c \in FactCols}

CoaFilesLacking == {[BaseCoa EXCEPT !.cols = CoaCols \ {c}] : c \in CoaCols}

\* fact files with a period cell that does not parse
FactFilesBadPeriod == {[BaseFact EXCEPT !.rows[2].period = c] : c \in BadPeriodCells}

\* the uploads a pass may see: any fact file with the plain CoA, the plain
\* fact file with any CoA, and the defective files
Uploads ==
    (FactFiles \X {BaseCoa})
    \cup ({BaseFact} \X CoaFiles)
    \cup (FactFilesLacking \X {BaseCoa})
    \cup (FactFilesBadPeriod \X {BaseCoa})
    \cup ({BaseFact} \X CoaFilesLacking)
    \cup {<<NoFile, BaseCoa>>, <<BaseFact, NoFile>>, <<NoFile, NoFile>>}

----------------------------------------------------------------------------
(* load_csv and its cache *)

IsLeap(y) == (y % 4 = 0 /\ y % 100 # 0) \/ y % 400 = 0

DaysInMonth(y, m) ==
    IF m = 2 THEN (IF IsLeap(y) THEN 29 ELSE 28)
    ELSE IF m \in {4, 6, 9, 11} THEN 30 ELSE 31

\* whether pd.to_datetime accepts the cell
Parses(c) == c[2] \in 1..12 /\ c[3] >= 1 /\ c[3] <= DaysInMonth(c[1], c[2])

\* pd.to_datetime of a cell that parses: a point on the calendar line
\* (31 slots per month)
ToDatetime(c) == (c[1] * 12 + (c[2] - 1)) * 31 + (c[3] - 1)

\* Series.dt.to_period('M'): the month the timestamp falls in
ToPeriodM(t) == t \div 31

\* the body of load_csv: read_csv, then parse the period column.
\* ok = FALSE stands for the exception (KeyError: 'period', or a cell that
\* does not parse), which ends the script.
load_csv_body(file_like) ==
    IF "period" \notin file_like.cols
       \/ \E i \in 1..Len(file_like.rows) : ~Parses(file_like.rows[i].period)
    THEN [ok |-> FALSE, cols |-> {}, rows |-> <<>>]
    ELSE [ok |-> TRUE, cols |-> file_like.cols,
          rows |-> [i \in 1..Len(file_like.rows) |->
                       [file_like.rows[i] EXCEPT
                           !.period = ToDatetime(file_like.rows[i].period)]]]

CacheKeyByName(file_like) == [name |-> file_like.name, cols |-> {}, rows |-> <<>>]

\* st.cache_data hashes the argument: an uploaded file hashes by its name and
\* its bytes
CacheKey(file_like) == file_like

CacheHit(file_like) == \E e \in cache : e.key = CacheKey(file_like)

\* load_csv as called: the cached value on a hit, the body otherwise
load_csv(file_like) ==
    IF CacheHit(file_like)
    THEN (CHOOSE e \in cache : e.key = CacheKey(file_like)).value
    ELSE load_csv_body(file_like)

\* the cache after the call: a result is stored on a miss, an exception is not
CacheAfter(file_like) ==
    IF CacheHit(file_like) \/ ~load_csv_body(file_like).ok THEN cache
    ELSE cache \cup {[key |-> CacheKey(file_like), value |-> load_csv_body(file_like)]}

----------------------------------------------------------------------------
(* The pipeline's pure steps *)

RECURSIVE Flatten(_)
Flatten(ss) == IF ss = <<>> THEN <<>> ELSE Head(ss) \o Flatten(Tail(ss))

\* one row of the merge result: the fact row plus the three CoA columns
JoinRow(f, cat, sub, sg) ==
    [account_code |-> f.account_code, period |-> f.period,
     business_unit |-> f.business_unit, cost_center |-> f.cost_center,
     actual |-> f.actual, budget |-> f.budget, prior_year |-> f.prior_year,
     category |-> cat, subcategory |-> sub, sign |-> sg]

\* the CoA rows with the fact row's account_code, in CoA order
Matches(f, right) == SelectSeq(right, LAMBDA c : c.account_code = f.account_code)

\* the rows a left merge yields for one fact row: one per matching CoA row,
\* or a single row with NaN in the CoA columns
MergeOne(f, right) ==
    IF Matches(f, right) = <<>>
    THEN <<JoinRow(f, NULL, NULL, NaN)>>
    ELSE [j \in 1..Len(Matches(f, right)) |->
             JoinRow(f, Matches(f, right)[j].category,
                        Matches(f, right)[j].subcategory,
                        Matches(f, right)[j].sign)]

\* pnl.merge(coa[[...]], on="account_code", how="left")
Merge(left, right) == Flatten([i \in 1..Len(left) |-> MergeOne(left[i], right)])

MergeRaisesLeftOnly(l, r) == "account_code" \notin l.cols

\* whether the merge raises KeyError
MergeRaises(l, r) ==
    "account_code" \notin l.cols
    \/ ~({"account_code", "category", "subcategory", "sign"} \subseteq r.cols)

RECURSIVE Unique(_)
\* Series.unique(): distinct values in order of first appearance
Unique(s) ==
    IF s = <<>> THEN <<>>
    ELSE LET u == Unique(SubSeq(s, 1, Len(s) - 1))
         IN  IF \E i \in 1..Len(u) : u[i] = s[Len(s)] THEN u
             ELSE Append(u, s[Len(s)])

\* df[df['category'].isna()]['account_code'].unique()
Unmapped(rows) ==
    LET na == SelectSeq(rows, LAMBDA r : r.category = NULL)
    IN  Unique([i \in 1..Len(na) |-> na[i].account_code])

\* for col in [...]: if col not in df.columns: df[col] = 0.0
NumericSafetyRow(r, cols) ==
    [r EXCEPT !.actual = IF "actual" \in cols THEN @ ELSE 0,
              !.budget = IF "budget" \in cols THEN @ ELSE 0,
              !.prior_year = IF "prior_year" \in cols THEN @ ELSE 0]

\* df['x_signed'] = df['x'] * df['sign']
SignedRow(r) ==
    [account_code |-> r.account_code, period |-> r.period,
     business_unit |-> r.business_unit, cost_center |-> r.cost_center,
     actual |-> r.actual, budget |-> r.budget, prior_year |-> r.prior_year,
     category |-> r.category, subcategory |-> r.subcategory, sign |-> r.sign,
     actual_signed |-> FMul(Num(r.actual), r.sign),
     budget_signed |-> FMul(Num(r.budget), r.sign),
     prior_signed |-> FMul(Num(r.prior_year), r.sign)]

\* sorted(df['period'].dt.to_period('M').unique()), as a set
Periods(rows) == {ToPeriodM(rows[i].period) : i \in 1..Len(rows)}

Views == {"Total", "business_unit", "cost_center"}

\* df[df['period'].dt.to_period('M') == period]
FilterPeriod(rows, p) == SelectSeq(rows, LAMBDA r : ToPeriodM(r.period) = p)

\* group_cols + ['category', 'subcategory'] of one row
GroupKey(r, v) ==
    (IF v = "Total" THEN <<>> ELSE <<r[v]>>) \o <<r.category, r.subcategory>>

\* the order groupby(sort=True) puts key values in: strings in lexicographic
\* order, the null value last
SortedStrings == <<"CC1", "Cost", "North", "Product", "Revenue">>

StrRank(x) ==
    IF x = NULL THEN Len(SortedStrings) + 1
    ELSE CHOOSE i \in 1..Len(SortedStrings) : SortedStrings[i] = x

RECURSIVE KeyLess(_, _)
KeyLess(a, b) ==
    IF a = <<>> THEN FALSE
    ELSE IF StrRank(Head(a)) # StrRank(Head(b)) THEN StrRank(Head(a)) < StrRank(Head(b))
    ELSE KeyLess(Tail(a), Tail(b))

RECURSIVE SortKeys(_)
SortKeys(S) ==
    IF S = {} THEN <<>>
    ELSE LET m == CHOOSE x \in S : \A y \in S \ {x} : KeyLess(x, y)
         IN  <<m>> \o SortKeys(S \ {m})

Column(rows, c) == [i \in 1..Len(rows) |-> rows[i][c]]

\* piv['var_pct'] = (var_abs / budget.abs()).replace([...], 0)
VarPct(var_abs, budget) == Replace(FDiv(var_abs, FAbs(budget)))

\* one group of the groupby(..., dropna=False).agg(sum), with the two
\* variance columns added
PivotRow(rows, v, key) ==
    LET g == SelectSeq(rows, LAMBDA r : GroupKey(r, v) = key)
        a == SumSkipNa(Column(g, "actual_signed"))
        b == SumSkipNa(Column(g, "budget_signed"))
    IN  [key |-> key, actual |-> a, budget |-> b,
         prior |-> SumSkipNa(Column(g, "prior_signed")),
         var_abs |-> FSub(a, b), var_pct |-> VarPct(FSub(a, b), b)]

\* the aggregated frame: one row per group key, keys in sorted order
Pivot(rows, v) ==
    LET keys == SortKeys({GroupKey(rows[i], v) : i \in 1..Len(rows)})
    IN  [i \in 1..Len(keys) |-> PivotRow(rows, v, keys[i])]

\* whether the groupby raises KeyError (the view's column is not in the frame)
GroupbyRaises(cols, v) == v # "Total" /\ v \notin cols

FLess(a, b) == a.n * b.d < b.n * a.d

SortKinds == {"stable", "reversed"}

\* the position sort_values(ascending=False) takes next: a row of greatest
\* abs_driver; among equal ones the default kind ('quicksort') promises no
\* order, and a build either keeps them in frame order or not
PickNext(rows, kind) ==
    LET top == {i \in 1..Len(rows) :
                   \A j \in 1..Len(rows) : ~FLess(rows[i].abs_driver, rows[j].abs_driver)}
    IN  IF kind = "stable"
        THEN CHOOSE i \in top : \A j \in top : i <= j
        ELSE CHOOSE i \in top : \A j \in top : i >= j

RECURSIVE SortValuesDesc(_, _)
SortValuesDesc(rows, kind) ==
    IF rows = <<>> THEN <<>>
    ELSE LET i == PickNext(rows, kind)
         IN  <<rows[i]>> \o
             SortValuesDesc(SubSeq(rows, 1, i - 1) \o SubSeq(rows, i + 1, Len(rows)), kind)

\* DataFrame.head(n)
HeadN(rows, n) == SubSeq(rows, 1, IF Len(rows) < n THEN Len(rows) ELSE n)

\* piv.assign(abs_driver=piv['var_abs'].abs())
AssignAbsDriver(rows) ==
    [i \in 1..Len(rows) |->
        [key |-> rows[i].key, actual |-> rows[i].actual, budget |-> rows[i].budget,
         prior |-> rows[i].prior, var_abs |-> rows[i].var_abs,
         var_pct |-> rows[i].var_pct, abs_driver |-> FAbs(rows[i].var_abs)]]

\* piv.assign(...).sort_values('abs_driver', ascending=False).head(10)
Drivers(rows, kind) == HeadN(SortValuesDesc(AssignAbsDriver(rows), kind), TopK)

TotalsSummingPct(rows) ==
    LET a == SumSkipNa(Column(rows, "actual"))
        b == SumSkipNa(Column(rows, "budget"))
    IN  [actual |-> a, budget |-> b, prior |-> SumSkipNa(Column(rows, "prior")),
         var_abs |-> FSub(a, b), var_pct |-> SumSkipNa(Column(rows, "var_pct"))]

\* piv[['actual','budget','prior']].sum() with var_abs and var_pct recomputed
Totals(rows) ==
    LET a == SumSkipNa(Column(rows, "actual"))
        b == SumSkipNa(Column(rows, "budget"))
    IN  [actual |-> a, budget |-> b, prior |-> SumSkipNa(Column(rows, "prior")),
         var_abs |-> FSub(a, b), var_pct |-> VarPct(FSub(a, b), b)]

----------------------------------------------------------------------------
(* The script as a state machine *)

\* the installation: whether src.export and src.narrative import, whether an
\* API key is configured, whether the groq package yields a client
Envs == [export : BOOLEAN, narrative : BOOLEAN, api_key : BOOLEAN, groq : BOOLEAN]

BaseEnv == [export |-> TRUE, narrative |-> TRUE, api_key |-> TRUE, groq |-> TRUE]

Sessions ==
    (Uploads \X {BaseEnv}) \cup ({<<BaseFact, BaseCoa>>} \X Envs)

NoTable == [ok |-> FALSE, cols |-> {}, rows |-> <<>>]

NoTotals == [actual |-> NaN, budget |-> NaN, prior |-> NaN, var_abs |-> NaN,
             var_pct |-> NaN]

NoXls == [state |-> "none"]

\* the state at the top of a pass over the given uploads
StartPass(f, c) ==
    /\ pnl_file' = f
    /\ coa_file' = c
    /\ pc' = "imports"
    /\ client' = "None"
    /\ pnl' = NoTable
    /\ coa' = NoTable
    /\ df' = <<>>
    /\ unmapped' = <<>>
    /\ period' = 0
    /\ view' = "Total"
    /\ piv' = <<>>
    /\ drivers' = <<>>
    /\ totals' = NoTotals
    /\ commentary' = "none"
    /\ xls' = NoXls

InitWith(f, c, e) ==
    /\ pnl_file = f
    /\ coa_file = c
    /\ env = e
    /\ pc = "imports"
    /\ client = "None"
    /\ cache = {}
    /\ pnl = NoTable
    /\ coa = NoTable
    /\ df = <<>>
    /\ unmapped = <<>>
    /\ period = 0
    /\ view = "Total"
    /\ piv = <<>>
    /\ drivers = <<>>
    /\ totals = NoTotals
    /\ commentary = "none"
    /\ xls = NoXls
    /\ sortKind = "unset"
    /\ pass = 1
    /\ shown = {}

Init == \E s \in Sessions : InitWith(s[1][1], s[1][2], s[2])

\* lines 5-6: a module that does not import ends the script
ImportModules ==
    /\ pc = "imports"
    /\ pc' = IF env.export /\ env.narrative THEN "client" ELSE "aborted"
    /\ UNCHANGED <<pnl_file, coa_file, client, cache, pnl, coa, df, unmapped, period,
                   view, piv, drivers, totals, commentary, xls, sortKind, env, pass,
                   shown>>

\* lines 37-43: the client exists when a key is given and groq loads
CreateClient ==
    /\ pc = "client"
    /\ client' = IF env.api_key /\ env.groq THEN "Groq" ELSE "None"
    /\ pc' = "uploads"
    /\ UNCHANGED <<pnl_file, coa_file, cache, pnl, coa, df, unmapped, period,
                   view, piv, drivers, totals, commentary, xls, sortKind, env, pass,
                   shown>>

\* line 45 and lines 137-138
CheckUploads ==
    /\ pc = "uploads"
    /\ pc' = IF pnl_file # NoFile /\ coa_file # NoFile THEN "load_pnl" ELSE "info"
    /\ UNCHANGED <<pnl_file, coa_file, client, cache, pnl, coa, df, unmapped, period,
                   view, piv, drivers, totals, commentary, xls, sortKind, env, pass,
                   shown>>

\* line 46
LoadPnl ==
    /\ pc = "load_pnl"
    /\ pnl' = load_csv(pnl_file)
    /\ cache' = CacheAfter(pnl_file)
    /\ pc' = IF load_csv(pnl_file).ok THEN "load_coa" ELSE "aborted"
    /\ UNCHANGED <<pnl_file, coa_file, client, coa, df, unmapped, period,
                   view, piv, drivers, totals, commentary, xls, sortKind, env, pass,
                   shown>>

\* line 47
LoadCoa ==
    /\ pc = "load_coa"
    /\ coa' = load_csv(coa_file)
    /\ cache' = CacheAfter(coa_file)
    /\ pc' = IF load_csv(coa_file).ok THEN "join" ELSE "aborted"
    /\ UNCHANGED <<pnl_file, coa_file, client, pnl, df, unmapped, period,
                   view, piv, drivers, totals, commentary, xls, sortKind, env, pass,
                   shown>>

\* lines 49-55
JoinAndValidate ==
    /\ pc = "join"
    /\ IF MergeRaises(pnl, coa)
       THEN pc' = "aborted" /\ UNCHANGED <<df, unmapped>>
       ELSE /\ df' = Merge(pnl.rows, coa.rows)
            /\ unmapped' = Unmapped(Merge(pnl.rows, coa.rows))
            /\ pc' = "numeric"
    /\ UNCHANGED <<pnl_file, coa_file, client, cache, pnl, coa, period,
                   view, piv, drivers, totals, commentary, xls, sortKind, env, pass,
                   shown>>

\* lines 57-60
NumericSafety ==
    /\ pc = "numeric"
    /\ df' = [i \in 1..Len(df) |-> NumericSafetyRow(df[i], pnl.cols)]
    /\ pc' = "sign"
    /\ UNCHANGED <<pnl_file, coa_file, client, cache, pnl, coa, unmapped, period,
                   view, piv, drivers, totals, commentary, xls, sortKind, env, pass,
                   shown>>

\* lines 62-65
SignConventions ==
    /\ pc = "sign"
    /\ df' = [i \in 1..Len(df) |-> SignedRow(df[i])]
    /\ pc' = "filters"
    /\ UNCHANGED <<pnl_file, coa_file, client, cache, pnl, coa, unmapped, period,
                   view, piv, drivers, totals, commentary, xls, sortKind, env, pass,
                   shown>>

\* lines 67-74: the user picks a month present in the data and a view
SelectFilters ==
    /\ pc = "filters"
    /\ \E p \in Periods(df), v \in Views : period' = p /\ view' = v
    /\ pc' = "aggregate"
    /\ UNCHANGED <<pnl_file, coa_file, client, cache, pnl, coa, df, unmapped,
                   piv, drivers, totals, commentary, xls, sortKind, env, pass, shown>>

\* lines 76-84
Aggregate ==
    /\ pc = "aggregate"
    /\ IF GroupbyRaises(pnl.cols, view)
       THEN pc' = "aborted" /\ UNCHANGED piv
       ELSE piv' = Pivot(FilterPeriod(df, period), view) /\ pc' = "drivers"
    /\ UNCHANGED <<pnl_file, coa_file, client, cache, pnl, coa, df, unmapped, period,
                   view, drivers, totals, commentary, xls, sortKind, env, pass, shown>>

\* whether two rows of the frame have the same |var_abs|
HasTies(rows) ==
    \E i, j \in 1..Len(rows) : i # j /\ FAbs(rows[i].var_abs) = FAbs(rows[j].var_abs)

\* lines 89-92: how the build orders equal rows is fixed the first time
\* equal rows are sorted
TopDrivers ==
    /\ pc = "drivers"
    /\ \E k \in (IF sortKind = "unset" THEN SortKinds ELSE {sortKind}) :
          /\ sortKind' = IF HasTies(piv) THEN k ELSE sortKind
          /\ drivers' = Drivers(piv, k)
    /\ pc' = "totals"
    /\ UNCHANGED <<pnl_file, coa_file, client, cache, pnl, coa, df, unmapped, period,
                   view, piv, totals, commentary, xls, env, pass, shown>>

\* lines 96-99
ComputeTotals ==
    /\ pc = "totals"
    /\ totals' = Totals(piv)
    /\ pc' = "buttons"
    /\ UNCHANGED <<pnl_file, coa_file, client, cache, pnl, coa, df, unmapped, period,
                   view, piv, drivers, commentary, xls, sortKind, env, pass, shown>>

\* what the pass displayed, with the inputs it came from
Shown ==
    [inputs |-> <<pnl_file, coa_file, period, view>>,
     outputs |-> <<piv, drivers, totals, unmapped>>]

\* str(period): year and month of the selected period
PeriodStr(p) == <<p \div 12, (p % 12) + 1>>

\* lines 103-117: an error message without a client; with one, the call to
\* generate_commentary returns text or raises, and the exception is caught
ExplainVariances ==
    /\ pc = "buttons"
    /\ \E ok \in BOOLEAN :
          commentary' = IF client = "None" THEN "no_key"
                        ELSE IF ok THEN "text" ELSE "failed"
    /\ pc' = "done"
    /\ shown' = shown \cup {Shown}
    /\ UNCHANGED <<pnl_file, coa_file, client, cache, pnl, coa, df, unmapped, period,
                   view, piv, drivers, totals, xls, sortKind, env, pass>>

\* lines 119-136: export_excel(piv, drivers, meta) returns the workbook or
\* raises, and the exception is caught
ExportExcel ==
    /\ pc = "buttons"
    /\ \E ok \in BOOLEAN :
          xls' = IF ok
                 THEN [state |-> "ok", pivot_table |-> piv, drivers |-> drivers,
                       metadata |-> [period |-> PeriodStr(period), view |-> view,
                                     generated_by |-> "P&L Analysis Assistant"]]
                 ELSE [state |-> "failed"]
    /\ pc' = "done"
    /\ shown' = shown \cup {Shown}
    /\ UNCHANGED <<pnl_file, coa_file, client, cache, pnl, coa, df, unmapped, period,
                   view, piv, drivers, totals, commentary, sortKind, env, pass>>

\* the pass ends with no button pressed
NoButton ==
    /\ pc = "buttons"
    /\ pc' = "done"
    /\ shown' = shown \cup {Shown}
    /\ UNCHANGED <<pnl_file, coa_file, client, cache, pnl, coa, df, unmapped, period,
                   view, piv, drivers, totals, commentary, xls, sortKind, env, pass>>

Step ==
    \/ ImportModules
    \/ CreateClient
    \/ CheckUploads
    \/ LoadPnl
    \/ LoadCoa
    \/ JoinAndValidate
    \/ NumericSafety
    \/ SignConventions
    \/ SelectFilters
    \/ Aggregate
    \/ TopDrivers
    \/ ComputeTotals
    \/ ExplainVariances
    \/ ExportExcel
    \/ NoButton

Next == Step

Spec == Init /\ [][Next]_vars

----------------------------------------------------------------------------
(* Repeated passes: Streamlit runs the script again on every interaction;  *)
(* the cache and the build outlive a pass, everything else is recomputed.  *)

\* a second fact file of the same name with other content: two groups whose
\* variances tie in absolute value
AltFact ==
    [name |-> "pnl.csv", cols |-> FactCols,
     rows |-> <<FactRow("4000", <<2024, 1, 5>>, "North", <<3, 2>>),
                FactRow("4000", <<2024, 1, 20>>, NULL, <<0, 1>>)>>]

\* a second CoA file of the same name with the signs the other way round
AltCoa ==
    [name |-> "coa.csv", cols |-> CoaCols,
     rows |-> <<CoaRow("4000", "Revenue", Num(-1)), CoaRow("5000", "Cost", Num(1))>>]

\* a third CoA file of the same name that maps one account only
SmallCoa ==
    [name |-> "coa.csv", cols |-> CoaCols,
     rows |-> <<CoaRow("4000", "Revenue", Num(1))>>]

RerunUploads == {BaseFact, AltFact} \X {BaseCoa, AltCoa, SmallCoa}

InitRerun == \E u \in RerunUploads : InitWith(u[1], u[2], BaseEnv)

\* the script starts over, on the same uploads or on new ones
Rerun ==
    /\ pc \in {"done", "aborted", "info"}
    /\ pass < MaxPasses
    /\ \E u \in RerunUploads : StartPass(u[1], u[2])
    /\ pass' = pass + 1
    /\ UNCHANGED <<cache, sortKind, env, shown>>

NextRerun == Step \/ Rerun

SpecRerun == InitRerun /\ [][NextRerun]_vars

----------------------------------------------------------------------------
(* Positions of the script *)

PostJoin == {"numeric", "sign", "filters", "aggregate", "drivers", "totals",
             "buttons", "done"}

PostSign == {"filters", "aggregate", "drivers", "totals", "buttons", "done"}

PostAggregate == {"drivers", "totals", "buttons", "done"}

PostDrivers == {"totals", "buttons", "done"}

PostTotals == {"buttons", "done"}

\* the account codes the loaded CoA has a row for
CoaCodes == {coa.rows[i].account_code : i \in 1..Len(coa.rows)}

\* the rows of the selected month
Dff == FilterPeriod(df, period)

----------------------------------------------------------------------------
(* Claims *)

\* C1: every pivot row, and the totals row, whose summed budget is 0 has
\* var_pct exactly 0, whatever the actual is (never NaN, never infinite).
C1_ZeroBudgetZeroPct ==
    /\ \A i \in 1..Len(piv) : piv[i].budget = Num(0) => piv[i].var_pct = Num(0)
    /\ pc \in PostTotals /\ totals.budget = Num(0) => totals.var_pct = Num(0)

\* IEEE addition and summation: NaN propagates
FAdd(a, b) ==
    IF IsNaN(a) \/ IsNaN(b) THEN NaN
    ELSE Ratio(a.n * b.d + b.n * a.d, a.d * b.d)

RECURSIVE FSum(_)
FSum(s) == IF s = <<>> THEN Num(0) ELSE FAdd(Head(s), FSum(Tail(s)))

\* C2: aggregation conserves totals: over all groups the pivot's actual,
\* budget and prior add up to the signed amounts of exactly the rows of the
\* selected month, rows with null keys included.
C2_AggregationConserves ==
    pc \in PostAggregate =>
        /\ FSum(Column(piv, "actual")) = FSum(Column(Dff, "actual_signed"))
        /\ FSum(Column(piv, "budget")) = FSum(Column(Dff, "budget_signed"))
        /\ FSum(Column(piv, "prior")) = FSum(Column(Dff, "prior_signed"))

\* C3: a row whose sign is null (its account code has no CoA row) passes
\* sign normalisation unchanged: the signed amounts are the raw amounts.
C3_NullSignPassesThrough ==
    pc \in PostSign =>
        \A i \in 1..Len(df) :
            df[i].account_code \notin CoaCodes =>
                /\ df[i].actual_signed = Num(df[i].actual)
                /\ df[i].budget_signed = Num(df[i].budget)
                /\ df[i].prior_signed = Num(df[i].prior_year)

\* C4: the join yields exactly one row per fact row; a fact row whose code
\* the CoA lacks is kept with null category and subcategory, is counted in
\* a pivot row with that null key for its period, and its code is in the
\* unmapped list; the unmapped list holds only codes the CoA lacks.
C4_UnmappedKept ==
    /\ pc \in PostJoin =>
        /\ Len(df) = Len(pnl.rows)
        /\ \A i \in 1..Len(df) :
              df[i].account_code \notin CoaCodes =>
                  /\ df[i].category = NULL
                  /\ df[i].subcategory = NULL
                  /\ \E j \in 1..Len(unmapped) : unmapped[j] = df[i].account_code
        /\ \A j \in 1..Len(unmapped) : unmapped[j] \notin CoaCodes
    /\ pc \in PostAggregate =>
        \A i \in 1..Len(Dff) :
            Dff[i].account_code \notin CoaCodes =>
                \E j \in 1..Len(piv) : piv[j].key = GroupKey(Dff[i], view)

\* the place of a driver row in the pivot it was ranked from
PivIndex(key) == CHOOSE i \in 1..Len(piv) : piv[i].key = key

\* C5: the drivers are a stable top-K of the pivot rows by |var_abs|
\* descending: at most K rows, no excluded row above an included one, equal
\* rows in their pivot order.
C5_StableTopK ==
    pc \in PostDrivers =>
        /\ Len(drivers) <= TopK
        /\ \A i \in 1..Len(drivers) :
              /\ \E j \in 1..Len(piv) : piv[j].key = drivers[i].key
              /\ drivers[i].abs_driver = FAbs(drivers[i].var_abs)
        /\ \A i, j \in 1..Len(drivers) :
              i < j =>
                  /\ ~FLess(drivers[i].abs_driver, drivers[j].abs_driver)
                  /\ drivers[i].abs_driver = drivers[j].abs_driver
                        => PivIndex(drivers[i].key) < PivIndex(drivers[j].key)
        /\ \A j \in 1..Len(piv) :
              (\A i \in 1..Len(drivers) : drivers[i].key # piv[j].key) =>
                  /\ Len(drivers) = TopK
                  /\ \A i \in 1..Len(drivers) :
                        ~FLess(drivers[i].abs_driver, FAbs(piv[j].var_abs))

RECURSIVE IntSum(_)
IntSum(s) == IF s = <<>> THEN 0 ELSE Head(s) + IntSum(Tail(s))

\* the integer a whole-valued float holds
Whole(x) == x.n \div x.d

PivSum(c) == IntSum([i \in 1..Len(piv) |-> Whole(piv[i][c])])

\* C6: the totals row holds the column sums of the pivot; its var_abs is
\* actual - budget of those sums and its var_pct is
\* (sum(actual) - sum(budget)) / |sum(budget)|, not something derived from
\* the rows' var_pct.
C6_TotalsFromSums ==
    pc \in PostTotals =>
        /\ totals.actual = Num(PivSum("actual"))
        /\ totals.budget = Num(PivSum("budget"))
        /\ totals.prior = Num(PivSum("prior"))
        /\ totals.var_abs = Num(PivSum("actual") - PivSum("budget"))
        /\ PivSum("budget") # 0 =>
              /\ totals.var_pct.k = "num"
              /\ totals.var_pct.n * Abs(PivSum("budget"))
                    = totals.var_pct.d * (PivSum("actual") - PivSum("budget"))

\* sum and average of the rows' var_pct
RowPctSum == SumSkipNa(Column(piv, "var_pct"))

RowPctAvg == Ratio(RowPctSum.n, RowPctSum.d * Len(piv))

\* C6 witness: totals over several rows with a non-zero budget sum, where
\* the totals' var_pct is neither the sum nor the average of the rows'
C6_Witness ==
    /\ pc = "buttons"
    /\ Len(piv) >= 2
    /\ PivSum("budget") # 0
    /\ \A i \in 1..Len(piv) : piv[i].var_pct.k = "num" /\ piv[i].var_pct.n # 0
    /\ totals.var_pct # RowPctSum
    /\ totals.var_pct # RowPctAvg

\* whether some period cell of the file fails to parse
BadPeriodCell(f) == \E i \in 1..Len(f.rows) : ~Parses(f.rows[i].period)

BothUploaded == pnl_file # NoFile /\ coa_file # NoFile

\* nothing of the aggregation, the ranking or the export exists
NothingAggregated ==
    /\ pc \notin PostAggregate
    /\ piv = <<>>
    /\ drivers = <<>>
    /\ xls = NoXls

\* the input errors the claim calls fatal
FatalAsClaimed ==
    \/ ~({"account_code", "period", "actual", "budget", "prior_year"}
            \subseteq pnl_file.cols)
    \/ ~({"account_code", "category", "subcategory", "sign"} \subseteq coa_file.cols)
    \/ BadPeriodCell(pnl_file)

FatalInput ==
    \/ ~({"account_code", "period"} \subseteq pnl_file.cols)
    \/ ~({"account_code", "category", "subcategory", "sign"} \subseteq coa_file.cols)
    \/ BadPeriodCell(pnl_file)

\* every other way a pass over two uploads ends early: a module that does not
\* import, the loader's period handling applied to the CoA file, a view whose
\* column the fact file lacks
OtherAbortCause ==
    \/ ~(env.export /\ env.narrative)
    \/ "period" \notin coa_file.cols
    \/ BadPeriodCell(coa_file)
    \/ (pc = "aborted" /\ view # "Total" /\ view \notin pnl_file.cols)

C8_NarrativeIsolated ==
    /\ pc = "aborted" /\ ~env.narrative =>
          \/ ~env.export
          \/ FatalInput
          \/ "period" \notin coa_file.cols
          \/ BadPeriodCell(coa_file)
          \/ (view # "Total" /\ view \notin pnl_file.cols)
    /\ commentary \in {"no_key", "failed"} =>
          /\ piv = Pivot(Dff, view)
          /\ drivers = Drivers(piv, sortKind)
          /\ totals = Totals(piv)

\* C9: passes over the same uploads and selectors show the same pivot,
\* drivers, totals and unmapped list, and a loaded table is the table a
\* fresh load of the uploaded content gives, cached or not.
C9_IdempotentCacheTransparent ==
    /\ \A a, b \in shown : a.inputs = b.inputs => a.outputs = b.outputs
    /\ pnl.ok => pnl = load_csv_body(pnl_file)
    /\ coa.ok => coa = load_csv_body(coa_file)

\* C9 witness: a second pass over the same uploads and selectors, both loads
\* served from the cache, ended with the same results as the first
C9_Witness ==
    /\ pass = 2
    /\ pc = "done"
    /\ Cardinality(cache) = 2
    /\ Cardinality(shown) = 1

\* C10: every mapped row is normalised with a sign of +1 or -1: a CoA sign
\* of any other value does not reach the sign step.
C10_SignPlusMinusOne ==
    pc \in PostSign =>
        \A i \in 1..Len(df) :
            df[i].account_code \in CoaCodes => df[i].sign \in {Num(1), Num(-1)}

====
